---- MODULE Spec2Model ----
(***************************************************************************)
(* website/src/components/Monaco.vue: the editor host component.           *)
(*                                                                         *)
(* The component registers two lifecycle hooks (onMounted,                 *)
(* onBeforeUnmount) and two prop watchers (highlights, language) and sets  *)
(* the process-wide MonacoEnvironment.getWorker hook.  Every hook is an    *)
(* action whose guard is the condition its code tests; the caller (the     *)
(* framework, the parent component, the user typing in the widget) is the  *)
(* environment and may deliver the events in any order.                    *)
(*                                                                         *)
(* The editor widget library is modelled at its API surface: an editor has *)
(* one attached text model, a decorations collection that is cleared when  *)
(* the editor's model changes, listeners that die with the editor, and it  *)
(* disposes on detach only the model it created itself.                    *)
(***************************************************************************)
EXTENDS Integers, Sequences, FiniteSets, TLC

VARIABLES
    props,          \* defineProps: language, modelValue, readonly, highlights
    containerRef,   \* containerRef.value is an element (TRUE) or null (FALSE)
    editor,         \* editor.value: NoEditor (null) or the id of an editor
    highlights,     \* the decorations collection the component holds, or null
    editors,        \* every editor monaco.editor.create has returned, by id
    models,         \* every text model created so far, by id
    workers,        \* the workers getWorker has spawned, oldest first
    emitted,        \* the events the last step passed to emits(), in order
    lastOp          \* the last operation delivered, and how it ended

vars == <<props, containerRef, editor, highlights, editors, models, workers,
          emitted, lastOp>>

----------------------------------------------------------------------------
(* Bounds of the model *)

MaxLen == 2          \* longest highlight list the parent supplies
MaxEditors == 2      \* editors created in one behaviour
MaxModels == 3       \* text models created in one behaviour
MaxDisposeCalls == 2 \* dispose() calls on one editor
MaxWorkers == 2      \* workers spawned in one behaviour

(* Input domains *)

Undefined == "undefined"
Texts == {"", "print(1)"}
ModelValues == Texts \cup {Undefined}
Languages == {"javascript", "python"}
\* the first is a span on one line, the second spans lines, the third has its
\* end before its start
MatchRanges == {<<0, 0, 0, 5>>, <<1, 2, 3, 4>>, <<2, 3, 0, 1>>}
CursorPositions == {"1:6"}
Labels == {"json", "css", "scss", "less", "html", "handlebars", "razor",
           "typescript", "javascript", "yaml", "python", "editorWorkerService"}
Hosts == {1, 2}

RECURSIVE SeqsUpTo(_, _)
SeqsUpTo(S, n) ==
    IF n = 0 THEN {<<>>}
    ELSE LET shorter == SeqsUpTo(S, n - 1)
         IN  shorter \cup {Append(s, x) : s \in shorter, x \in S}

\* props.highlights is an array or undefined (the prop has no default)
NoHighlights == [defined |-> FALSE, list |-> <<>>]
Highlights(list) == [defined |-> TRUE, list |-> list]

\* every list over MatchRanges, for the decoration mapping
HighlightValues ==
    {NoHighlights} \cup {Highlights(l) : l \in SeqsUpTo(MatchRanges, MaxLen)}

\* the values of the lifecycle specification: none, no match, one match
SomeHighlightValues == {NoHighlights, Highlights(<<>>), Highlights(<<<<0, 0, 0, 5>>>>)}

NoEditor == 0
NoModel == 0

----------------------------------------------------------------------------
(* WorkerRouter: self.MonacoEnvironment.getWorker *)

\* variant: the yaml branch is missing
getWorker_NoYaml(host, label) ==
    IF label = "json" THEN "jsonWorker"
    ELSE IF label = "css" \/ label = "scss" \/ label = "less" THEN "cssWorker"
    ELSE IF label = "html" \/ label = "handlebars" \/ label = "razor" THEN "htmlWorker"
    ELSE IF label = "typescript" \/ label = "javascript" THEN "tsWorker"
    ELSE "editorWorker"

getWorker(host, label) ==
    IF label = "json" THEN "jsonWorker"
    ELSE IF label = "css" \/ label = "scss" \/ label = "less" THEN "cssWorker"
    ELSE IF label = "html" \/ label = "handlebars" \/ label = "razor" THEN "htmlWorker"
    ELSE IF label = "typescript" \/ label = "javascript" THEN "tsWorker"
    ELSE IF label = "yaml" THEN "yamlWorker"
    ELSE "editorWorker"

----------------------------------------------------------------------------
(* DecorationSynchronizer: transformMatch *)

\* new monaco.Range(a, b, c, d): the constructor orders its two end points
Range(startLine, startColumn, endLine, endColumn) ==
    IF startLine > endLine \/ (startLine = endLine /\ startColumn > endColumn)
    THEN [startLineNumber |-> endLine, startColumn |-> endColumn,
          endLineNumber |-> startLine, endColumn |-> startColumn]
    ELSE [startLineNumber |-> startLine, startColumn |-> startColumn,
          endLineNumber |-> endLine, endColumn |-> endColumn]

\* variant: the end column keeps its 0-based value
transformMatch_EndColumnUnshifted(match) ==
    [range |-> Range(match[1] + 1, match[2] + 1, match[3] + 1, match[4]),
     options |-> [inlineClassName |-> "monaco-highlight-span"]]

transformMatch(match) ==
    LET sr == match[1]
        sc == match[2]
        er == match[3]
        ec == match[4]
    IN  [range |-> Range(sr + 1, sc + 1, er + 1, ec + 1),
         options |-> [inlineClassName |-> "monaco-highlight-span"]]

\* Array.prototype.map(transformMatch)
MapTransform(list) == [i \in 1..Len(list) |-> transformMatch(list[i])]

----------------------------------------------------------------------------
(* The editor widget library, at the API surface the component calls.  A   *)
(* world w holds the editors, the models and the decorations collection    *)
(* the component has a reference to.                                       *)

World(eds, mds, coll) == [editors |-> eds, models |-> mds, highlights |-> coll]

\* let highlights = null
NoCollection == [editor |-> NoEditor, ranges |-> <<>>]

\* monaco.editor.createModel(value, language)
createModel(value, language) ==
    [text |-> value, language |-> language, disposed |-> FALSE,
     disposeCalls |-> 0, disposedAttached |-> FALSE]

\* a model is attached when a live editor holds it as its model
IsAttached(w, m) ==
    \E e \in DOMAIN w.editors : ~w.editors[e].disposed /\ w.editors[e].model = m

\* a disposed model has released its text buffer
Released(model) == [model EXCEPT !.disposed = TRUE, !.text = ""]

\* ITextModel.dispose(), called by the component
ModelDispose(w, m) ==
    [w EXCEPT !.models[m] =
        [Released(@) EXCEPT !.disposeCalls = @ + 1,
                            !.disposedAttached = @ \/ IsAttached(w, m)]]

\* the editor disposes a model it detaches only when it created that model
DetachCleanup(mds, ed) ==
    IF ed.ownsModel /\ ed.model # NoModel
    THEN [mds EXCEPT ![ed.model] = Released(@)]
    ELSE mds

\* the decorations of an editor's collection are cleared when the editor's
\* model changes
ClearDecorations(coll, e) ==
    IF coll.editor = e THEN [coll EXCEPT !.ranges = <<>>] ELSE coll

\* editor.getModel()
getModel(w, e) == w.editors[e].model

\* editor.getValue(): the text of the attached model, "" without a model
getValue(w, e) ==
    IF w.editors[e].model = NoModel THEN "" ELSE w.models[w.editors[e].model].text

\* editor.setModel(m)
setModel(w, e, m) ==
    [w EXCEPT !.editors[e] = [@ EXCEPT !.model = m, !.ownsModel = FALSE],
              !.models = DetachCleanup(w.models, w.editors[e]),
              !.highlights = ClearDecorations(w.highlights, e)]

\* editor.dispose(): the model is detached, the listeners and decorations go
\* with the editor; a second call finds nothing left to release
EditorDispose(w, e) ==
    IF w.editors[e].disposed
    THEN [w EXCEPT !.editors[e].disposeCalls = @ + 1]
    ELSE [w EXCEPT !.editors[e] = [@ EXCEPT !.disposed = TRUE,
                                           !.disposeCalls = @ + 1,
                                           !.model = NoModel,
                                           !.ownsModel = FALSE,
                                           !.contentListeners = 0,
                                           !.cursorListeners = 0],
                  !.models = DetachCleanup(w.models, w.editors[e]),
                  !.highlights = ClearDecorations(w.highlights, e)]

\* IEditorDecorationsCollection.set(ranges): replaces the whole set; an
\* editor without a model has nothing to decorate
DecorationsSet(w, ranges) ==
    IF w.editors[w.highlights.editor].model = NoModel THEN w
    ELSE [w EXCEPT !.highlights.ranges = ranges]

\* monaco.editor.create(container, options): a live editor that owns a model
\* built from options.value and options.language
EditorCreate(w, value, language, readOnly) ==
    LET m == Len(w.models) + 1
        ed == [disposed |-> FALSE, disposeCalls |-> 0, model |-> m,
               ownsModel |-> TRUE, readOnly |-> readOnly,
               contentListeners |-> 0, cursorListeners |-> 0]
    IN  [w EXCEPT !.editors = Append(@, ed),
                  !.models = Append(@, createModel(IF value = Undefined THEN ""
                                                   ELSE value, language))]

\* editorInstance.createDecorationsCollection(ranges)
createDecorationsCollection(w, e, ranges) ==
    [w EXCEPT !.highlights = [editor |-> e, ranges |-> ranges]]

----------------------------------------------------------------------------
(* Derived state *)

TheWorld == World(editors, models, highlights)

Live(e) == e \in DOMAIN editors /\ ~editors[e].disposed

\* EditorHost state: Mounted while editor.value is an editor not yet disposed
Mounted == editor # NoEditor /\ ~editors[editor].disposed

Op(name, threw, misuse) == [op |-> name, threw |-> threw, misuse |-> misuse]

----------------------------------------------------------------------------
(* ChangeEmitter: the two callbacks registered at mount.  Each returns the *)
(* emits() calls it makes when the widget fires it on editor e of world w. *)

Event(name, value, e) == [name |-> name, value |-> value, source |-> e]

\* variant: the callback forwards the prop instead of the editor's text
onDidChangeModelContent_PropValue(w, e) ==
    <<Event("update:modelValue",
            IF props.modelValue = Undefined THEN "" ELSE props.modelValue, e)>>

\* () => emits('update:modelValue', editorInstance.getValue())
onDidChangeModelContent(w, e) ==
    <<Event("update:modelValue", getValue(w, e), e)>>

\* e => emits('changeCursor', e)
onDidChangeCursorPosition(w, e, pos) ==
    <<Event("changeCursor", pos, e)>>

RECURSIVE Repeat(_, _)
Repeat(s, n) == IF n = 0 THEN <<>> ELSE s \o Repeat(s, n - 1)

----------------------------------------------------------------------------
(* EditorHost: the hooks.  Each returns the state it leaves behind.        *)

Result(w, e, threw, misuse) ==
    [w |-> w, editor |-> e, threw |-> threw, misuse |-> misuse]

\* variant: the collection is created empty, the props are left to the watcher
InitialDecorations_Empty == <<>>

\* props.highlights?.map(transformMatch) || []
InitialDecorations ==
    IF props.highlights.defined THEN MapTransform(props.highlights.list) ELSE <<>>

\* lines 75-97: create the editor, register the listeners, create the
\* decorations collection
CreateEditorSession ==
    LET w1 == EditorCreate(TheWorld, props.modelValue, props.language, props.readonly)
        editorInstance == Len(w1.editors)
        w2 == [w1 EXCEPT !.editors[editorInstance].contentListeners = @ + 1]
        w3 == [w2 EXCEPT !.editors[editorInstance].cursorListeners = @ + 1]
        w4 == createDecorationsCollection(w3, editorInstance, InitialDecorations)
    IN  Result(w4, editorInstance, FALSE, FALSE)

\* variant: the container check is missing
onMounted_NoContainerCheck == CreateEditorSession

onMounted ==
    IF ~containerRef
    THEN Result(TheWorld, editor, FALSE, FALSE)
    ELSE CreateEditorSession

\* variant: the sync also writes the modelValue prop back into the editor
watchHighlights_ResetsText(matched) ==
    IF ~matched.defined
    THEN Result(TheWorld, editor, TRUE, FALSE)
    ELSE LET ranges == MapTransform(matched.list)
             value == IF props.modelValue = Undefined THEN "" ELSE props.modelValue
         IN  IF highlights = NoCollection
             THEN Result(TheWorld, editor, FALSE, FALSE)
             ELSE IF editors[highlights.editor].model = NoModel
             THEN Result(TheWorld, editor, FALSE, editors[highlights.editor].disposed)
             ELSE Result([DecorationsSet(TheWorld, ranges) EXCEPT
                             !.models[editors[highlights.editor].model].text = value],
                         editor, FALSE, editors[highlights.editor].disposed)

\* watch(() => props.highlights, (matched) => ...): matched!.map throws a
\* TypeError on undefined; highlights?.set skips a null collection
watchHighlights(matched) ==
    IF ~matched.defined
    THEN Result(TheWorld, editor, TRUE, FALSE)
    ELSE LET ranges == MapTransform(matched.list)
         IN  IF highlights = NoCollection
             THEN Result(TheWorld, editor, FALSE, FALSE)
             ELSE Result(DecorationsSet(TheWorld, ranges), editor, FALSE,
                         editors[highlights.editor].disposed)

\* what setModel does on an editor that was disposed is not defined by the
\* library: it attaches the model, ignores the call or throws
SetModelOutcomes == {"attach", "ignore", "throw"}

\* variant: the old model is disposed before the new one is attached
watchLanguage_DisposeFirst(lang, outcome) ==
    LET oldModel == IF editor = NoEditor THEN NoModel ELSE getModel(TheWorld, editor)
        newModel == Len(models) + 1
        value == IF props.modelValue = Undefined THEN "" ELSE props.modelValue
        w1 == [TheWorld EXCEPT !.models = Append(@, createModel(value, lang))]
        w2 == IF oldModel # NoModel THEN ModelDispose(w1, oldModel) ELSE w1
        w3 == IF editor # NoEditor /\ outcome = "attach"
              THEN setModel(w2, editor, newModel)
              ELSE w2
    IN  Result(w3, editor, editor # NoEditor /\ outcome = "throw",
               editor # NoEditor /\ editors[editor].disposed)

\* variant: the new model is created but never attached
watchLanguage_NoAttach(lang, outcome) ==
    LET oldModel == IF editor = NoEditor THEN NoModel ELSE getModel(TheWorld, editor)
        value == IF props.modelValue = Undefined THEN "" ELSE props.modelValue
        w1 == [TheWorld EXCEPT !.models = Append(@, createModel(value, lang))]
        w2 == IF oldModel # NoModel THEN ModelDispose(w1, oldModel) ELSE w1
    IN  Result(w2, editor, FALSE, editor # NoEditor /\ editors[editor].disposed)

\* watch(() => props.language, (lang) => ...)
watchLanguage(lang, outcome) ==
    LET oldModel == IF editor = NoEditor THEN NoModel ELSE getModel(TheWorld, editor)
        newModel == Len(models) + 1
        value == IF props.modelValue = Undefined THEN "" ELSE props.modelValue
        w1 == [TheWorld EXCEPT !.models = Append(@, createModel(value, lang))]
        w2 == IF editor # NoEditor /\ outcome = "attach"
              THEN setModel(w1, editor, newModel)
              ELSE w1
        threw == editor # NoEditor /\ outcome = "throw"
        w3 == IF ~threw /\ oldModel # NoModel THEN ModelDispose(w2, oldModel) ELSE w2
    IN  Result(w3, editor, threw, editor # NoEditor /\ editors[editor].disposed)

\* onBeforeUnmount(() => { editor.value?.dispose() })
onBeforeUnmount ==
    IF editor = NoEditor
    THEN Result(TheWorld, editor, FALSE, FALSE)
    ELSE Result(EditorDispose(TheWorld, editor), editor, FALSE, FALSE)

----------------------------------------------------------------------------
(* Actions *)

Install(r, name) ==
    /\ editors' = r.w.editors
    /\ models' = r.w.models
    /\ highlights' = r.w.highlights
    /\ editor' = r.editor
    /\ emitted' = <<>>
    /\ lastOp' = Op(name, r.threw, r.misuse)

\* the framework binds or clears the template ref of the container div
SetContainerRef(present) ==
    /\ present # containerRef
    /\ containerRef' = present
    /\ emitted' = <<>>
    /\ lastOp' = Op("containerRef", FALSE, FALSE)
    /\ UNCHANGED <<props, editor, highlights, editors, models, workers>>

\* the parent passes a new modelValue; the component does not watch it
ModelValueChange(value) ==
    /\ value # props.modelValue
    /\ props' = [props EXCEPT !.modelValue = value]
    /\ emitted' = <<>>
    /\ lastOp' = Op("modelValue", FALSE, FALSE)
    /\ UNCHANGED <<containerRef, editor, highlights, editors, models, workers>>

Mount ==
    /\ containerRef => Len(editors) < MaxEditors /\ Len(models) < MaxModels
    /\ Install(onMounted, "mount")
    /\ UNCHANGED <<props, containerRef, workers>>

\* the parent passes a new highlights array (or none): the watcher runs
HighlightsChange(matched) ==
    /\ ~(matched = NoHighlights /\ props.highlights = NoHighlights)
    /\ props' = [props EXCEPT !.highlights = matched]
    /\ Install(watchHighlights(matched), "highlights")
    /\ UNCHANGED <<containerRef, workers>>

\* the parent passes another language: the watcher runs
LanguageChange(lang) ==
    /\ lang # props.language
    /\ Len(models) < MaxModels
    /\ props' = [props EXCEPT !.language = lang]
    /\ \E outcome \in IF editor # NoEditor /\ editors[editor].disposed
                      THEN SetModelOutcomes ELSE {"attach"} :
          Install(watchLanguage(lang, outcome), "language")
    /\ UNCHANGED <<containerRef, workers>>

Unmount ==
    /\ editor # NoEditor => editors[editor].disposeCalls < MaxDisposeCalls
    /\ Install(onBeforeUnmount, "unmount")
    /\ UNCHANGED <<props, containerRef, workers>>

\* the user changes the text of a live, writable editor: the widget updates
\* the attached model and fires every content listener
Edit(e, text) ==
    /\ Live(e)
    /\ ~editors[e].readOnly
    /\ editors[e].model # NoModel
    /\ text # models[editors[e].model].text
    /\ models' = [models EXCEPT ![editors[e].model].text = text]
    /\ emitted' = Repeat(onDidChangeModelContent(World(editors, models', highlights), e),
                         editors[e].contentListeners)
    /\ lastOp' = Op("edit", FALSE, FALSE)
    /\ UNCHANGED <<props, containerRef, editor, highlights, editors, workers>>

\* the user moves the cursor of a live editor: every cursor listener fires
CursorMove(e, pos) ==
    /\ Live(e)
    /\ emitted' = Repeat(onDidChangeCursorPosition(TheWorld, e, pos),
                         editors[e].cursorListeners)
    /\ lastOp' = Op("cursor", FALSE, FALSE)
    /\ UNCHANGED <<props, containerRef, editor, highlights, editors, models, workers>>

\* the editor runtime asks the router for a worker
GetWorker(host, label) ==
    /\ Len(workers) < MaxWorkers
    /\ workers' = Append(workers, [host |-> host, label |-> label,
                                   kind |-> getWorker(host, label)])
    /\ UNCHANGED <<props, containerRef, editor, highlights, editors, models,
                   emitted, lastOp>>

\* the state after setup(): the parent's props, nothing created yet
InitWith(languages, modelValues, flags, highlightValues) ==
    /\ props \in [language : languages, modelValue : modelValues,
                  readonly : flags, highlights : highlightValues]
    /\ containerRef = FALSE
    /\ editor = NoEditor
    /\ highlights = NoCollection
    /\ editors = <<>>
    /\ models = <<>>
    /\ workers = <<>>
    /\ emitted = <<>>
    /\ lastOp = Op("setup", FALSE, FALSE)

\* the parent leaves readonly at its default; the other props take any value
Init == InitWith(Languages, ModelValues, {FALSE}, SomeHighlightValues)

Next ==
    \/ \E present \in BOOLEAN : SetContainerRef(present)
    \/ \E value \in ModelValues : ModelValueChange(value)
    \/ Mount
    \/ \E matched \in SomeHighlightValues : HighlightsChange(matched)
    \/ \E lang \in Languages : LanguageChange(lang)
    \/ Unmount
    \/ \E e \in 1..MaxEditors, text \in Texts : Edit(e, text)
    \/ \E e \in 1..MaxEditors, pos \in CursorPositions : CursorMove(e, pos)

Spec == Init /\ [][Next]_vars

\* the worker router shares no state with the host: its calls on their own
NextWorkers == \E host \in Hosts, label \in Labels : GetWorker(host, label)

SpecWorkers == Init /\ [][NextWorkers]_vars

\* the decoration mapping on its own: a host that is mounted and not yet
\* unmounted, under a parent that passes highlights and languages (the other
\* props at their defaults), over every list of match ranges
NextDecorations ==
    \/ \E present \in BOOLEAN : SetContainerRef(present)
    \/ Mount
    \/ \E matched \in HighlightValues : HighlightsChange(matched)
    \/ \E lang \in Languages : LanguageChange(lang)

InitDecorations == InitWith({"javascript"}, {Undefined}, {FALSE}, HighlightValues)

SpecDecorations == InitDecorations /\ [][NextDecorations]_vars

----------------------------------------------------------------------------
(* Properties *)

\* the decorations the list asks for: one per match, 1-based, in order
Expected(list) ==
    [i \in 1..Len(list) |->
        [range |-> [startLineNumber |-> list[i][1] + 1, startColumn |-> list[i][2] + 1,
                    endLineNumber |-> list[i][3] + 1, endColumn |-> list[i][4] + 1],
         options |-> [inlineClassName |-> "monaco-highlight-span"]]]

\* a match range is a span: its start is not after its end
IsSpan(match) ==
    match[1] < match[3] \/ (match[1] = match[3] /\ match[2] <= match[4])

\* C1: while the host is Mounted the decoration set is exactly the one of the
\* most recently supplied highlight list (an absent list counts as empty).
C1_DecorationsReflectLatest ==
    Mounted =>
        /\ highlights.editor = editor
        /\ Len(highlights.ranges) = Len(props.highlights.list)
        /\ \A i \in 1..Len(highlights.ranges) :
              highlights.ranges[i].range = Expected(props.highlights.list)[i].range

\* C2: after sync(R) on a mounted host, and after a mount that created the
\* editor with R, the collection holds exactly len(R) decorations, in the
\* order of R, decoration i spanning (sr+1, sc+1)-(er+1, ec+1) with the one
\* highlight class, for every list R of spans.
C2_SyncMapsRanges ==
    ( /\ lastOp.op \in {"highlights", "mount"}
      /\ lastOp.op = "mount" => containerRef
      /\ Mounted
      /\ props.highlights.defined
      /\ \A i \in 1..Len(props.highlights.list) : IsSpan(props.highlights.list[i]) )
    => /\ highlights.editor = editor
       /\ highlights.ranges = Expected(props.highlights.list)

C2_Witness ==
    /\ lastOp.op = "highlights"
    /\ Mounted
    /\ props.highlights.list = <<<<1, 2, 3, 4>>, <<0, 0, 0, 5>>>>
    /\ Len(highlights.ranges) = 2

\* C3: a language switch on a mounted host leaves the editor with a model
\* whose text is the text the editor held just before the switch and whose
\* language is the new language.
C3_SwitchKeepsEditorText ==
    [][ (lastOp'.op = "language" /\ Mounted)
        => /\ editors'[editor].model # NoModel
           /\ models'[editors'[editor].model].text = getValue(TheWorld, editor)
           /\ models'[editors'[editor].model].language = props'.language ]_vars

\* C4: a language switch on a mounted host attaches a new model and then
\* disposes the model it replaced: that model's dispose is called once in the
\* switch, after the new model is attached, and never again once it is
\* detached; no model is disposed while a live editor still holds it.
C4_OldModelDisposedOnceAfterAttach ==
    /\ [](\A m \in DOMAIN models :
            /\ ~models[m].disposedAttached
            /\ IsAttached(TheWorld, m) => ~models[m].disposed)
    /\ [][ (lastOp'.op = "language" /\ Mounted)
           => LET old == editors[editor].model
                  new == editors'[editor].model
              IN  /\ new = Len(models') /\ new # old
                  /\ models[old].disposeCalls = 0
                  /\ models'[old].disposeCalls = 1
                  /\ models'[old].disposed
                  /\ ~models'[new].disposed ]_vars
    /\ [][ \A m \in DOMAIN models :
              (models[m].disposeCalls >= 1 /\ \A e \in DOMAIN editors : editors[e].model # m)
              => models'[m].disposeCalls = models[m].disposeCalls ]_vars

C4_Witness ==
    /\ lastOp.op = "language"
    /\ Mounted
    /\ Len(models) = 3
    /\ editors[editor].model = 3
    /\ models[1].disposeCalls = 1
    /\ models[2].disposeCalls = 1

\* C5: unmount is idempotent: it never throws, and no editor instance has its
\* dispose invoked more than once.
C5_DisposeAtMostOnce ==
    /\ lastOp.op = "unmount" => ~lastOp.threw
    /\ \A e \in DOMAIN editors : editors[e].disposeCalls <= 1

\* C6: mount with an absent container changes nothing: no editor, model,
\* listener or collection is created, nothing is emitted, nothing is thrown.
C6_MountWithoutContainerIsNoOp ==
    [][ (lastOp'.op = "mount" /\ ~containerRef)
        => /\ UNCHANGED <<props, containerRef, editor, highlights, editors, models>>
           /\ emitted' = <<>>
           /\ ~lastOp'.threw ]_vars

C6_Witness ==
    /\ lastOp.op = "mount"
    /\ ~containerRef
    /\ editor = NoEditor
    /\ editors = <<>>
    /\ highlights = NoCollection

\* C7: once unmount has disposed the host's editor, no live editor remains
\* and no update:modelValue or changeCursor event is emitted any more.
C7_NothingLiveAfterUnmount ==
    (editor # NoEditor /\ editors[editor].disposed)
    => /\ \A e \in DOMAIN editors : editors[e].disposed
       /\ emitted = <<>>

\* C8: the worker kind is a function of the label alone, by the dispatch
\* table, and the six classes of labels get six different kinds.
C8_WorkerDispatch ==
    /\ \A i \in DOMAIN workers :
          LET label == workers[i].label
              kind == workers[i].kind
          IN  /\ label = "json" => kind = "jsonWorker"
              /\ label \in {"css", "scss", "less"} => kind = "cssWorker"
              /\ label \in {"html", "handlebars", "razor"} => kind = "htmlWorker"
              /\ label \in {"typescript", "javascript"} => kind = "tsWorker"
              /\ label = "yaml" => kind = "yamlWorker"
              /\ label \notin {"json", "css", "scss", "less", "html", "handlebars",
                               "razor", "typescript", "javascript", "yaml"}
                 => kind = "editorWorker"
    /\ \A i, j \in DOMAIN workers :
          workers[i].label = workers[j].label => workers[i].kind = workers[j].kind
    /\ \A i, j \in DOMAIN workers :
          LET class(l) == CASE l = "json" -> 1
                            [] l \in {"css", "scss", "less"} -> 2
                            [] l \in {"html", "handlebars", "razor"} -> 3
                            [] l \in {"typescript", "javascript"} -> 4
                            [] l = "yaml" -> 5
                            [] OTHER -> 6
          IN  class(workers[i].label) # class(workers[j].label)
              => workers[i].kind # workers[j].kind

C8_Witness ==
    /\ Len(workers) = 2
    /\ workers[1].label = "yaml" /\ workers[1].host = 1
    /\ workers[2].label = "yaml" /\ workers[2].host = 2
    /\ workers[2].kind = "yamlWorker"

\* C9: every edit emits exactly one update:modelValue carrying the whole text
\* of the edited editor after the edit, every cursor move exactly one
\* changeCursor, and nothing else emits.
C9_OneEventPerChange ==
    [][ /\ lastOp'.op = "edit"
           => \E e \in DOMAIN editors :
                 /\ Live(e)
                 /\ models'[editors[e].model].text # models[editors[e].model].text
                 /\ emitted' = <<Event("update:modelValue",
                                       models'[editors[e].model].text, e)>>
        /\ lastOp'.op = "cursor"
           => /\ Len(emitted') = 1
              /\ emitted'[1].name = "changeCursor"
              /\ Live(emitted'[1].source)
        /\ lastOp'.op \notin {"edit", "cursor"} => emitted' = <<>> ]_vars

C9_Witness ==
    /\ lastOp.op = "edit"
    /\ Mounted
    /\ props.modelValue = ""
    /\ emitted = <<Event("update:modelValue", "print(1)", editor)>>

\* C10: whenever the host is Mounted its editor holds one model, that model
\* is not disposed, and the component holds that editor's decorations
\* collection.
C10_MountedHasModelAndCollection ==
    Mounted =>
        /\ editors[editor].model \in DOMAIN models
        /\ ~models[editors[editor].model].disposed
        /\ \A e \in DOMAIN editors :
              e # editor => editors[e].model # editors[editor].model
        /\ highlights # NoCollection
        /\ highlights.editor = editor

C10_Witness ==
    /\ Mounted
    /\ lastOp.op = "edit"
    /\ Len(models) = 3
    /\ editors[editor].model = 3
    /\ highlights.ranges # <<>>

\* C11: the host becomes Mounted only by a mount with the container present
\* and leaves Mounted only by unmount; once unmount has disposed its editor
\* no later event makes it Mounted again, and the host never has more than
\* one editor instance.
C11_LifecycleIsOneWay ==
    [][ /\ (~Mounted /\ Mounted') => (lastOp'.op = "mount" /\ containerRef)
        /\ (Mounted /\ ~Mounted') => lastOp'.op = "unmount"
        /\ (editor # NoEditor /\ editors[editor].disposed) => ~Mounted'
        /\ Len(editors') <= 1 ]_vars

\* C12: an absent highlights prop counts as the empty list: a mount without
\* highlights creates an empty decoration set, and a change to the absent
\* value on a mounted host leaves an empty decoration set and throws nothing.
C12_AbsentHighlightsAreEmpty ==
    /\ (lastOp.op = "mount" /\ containerRef /\ ~props.highlights.defined)
       => (highlights.editor = editor /\ highlights.ranges = <<>>)
    /\ (lastOp.op = "highlights" /\ ~props.highlights.defined /\ Mounted)
       => (~lastOp.threw /\ highlights.ranges = <<>>)

\* C13: unmount of a mounted host destroys the session: the model attached to
\* the editor at that moment is disposed, whether mount or a language switch
\* created it.
C13_UnmountDisposesAttachedModel ==
    [][ (lastOp'.op = "unmount" /\ Mounted)
        => /\ editors'[editor].disposed
           /\ models'[editors[editor].model].disposed ]_vars

\* C14: every model that exists is attached to a live editor or disposed: no
\* language switch, before mount, after a skipped mount or after unmount,
\* leaves a model that is neither.
C14_NoOrphanModel ==
    \A m \in DOMAIN models : IsAttached(TheWorld, m) \/ models[m].disposed

\* C15: no highlights or language change calls into an editor that was
\* disposed: neither set on its decorations collection nor getModel or
\* setModel on the editor itself.
C15_NoCallAfterDispose ==
    lastOp.op \in {"highlights", "language"} => ~lastOp.misuse

\* C16: a highlights change that arrives before any mount has created an
\* editor changes no editor, model or collection, and the mount that follows
\* builds the decoration set from the list the prop holds at mount time.
C16_EarlyHighlightsReachMount ==
    [][ /\ (lastOp'.op = "highlights" /\ highlights = NoCollection)
           => UNCHANGED <<editor, editors, models, highlights>>
        /\ (lastOp'.op = "mount" /\ containerRef)
           => /\ highlights'.editor = editor'
              /\ Len(highlights'.ranges) = Len(props.highlights.list)
              /\ highlights'.ranges = Expected(props.highlights.list) ]_vars

C16_Witness ==
    /\ lastOp.op = "mount"
    /\ containerRef
    /\ Len(editors) = 1
    /\ props.highlights = Highlights(<<<<0, 0, 0, 5>>>>)
    /\ highlights = [editor |-> 1, ranges |-> Expected(<<<<0, 0, 0, 5>>>>)]

\* C17: a highlights change touches the decoration set alone: the editors
\* (attached model, read-only flag), the models (text, language) and
\* editor.value stay as they are and nothing is emitted; a language switch
\* emits no update:modelValue.
C17_SyncChangesDecorationsOnly ==
    [][ /\ lastOp'.op = "highlights"
           => /\ UNCHANGED <<editor, editors, models>>
              /\ highlights'.editor = highlights.editor
              /\ emitted' = <<>>
        /\ lastOp'.op = "language"
           => \A i \in 1..Len(emitted') : emitted'[i].name # "update:modelValue" ]_vars

C17_Witness ==
    /\ lastOp.op = "highlights"
    /\ Mounted
    /\ highlights.ranges = Expected(<<<<0, 0, 0, 5>>>>)
    /\ models[editors[editor].model].text = "print(1)"
    /\ props.modelValue = ""
    /\ emitted = <<>>

====
